---- MODULE Spec2Model ----
(***************************************************************************)
(* A model of the sequent discrete-event simulation engine: the Queue      *)
(* view an event receives (event.rs) and the cursor-driven Simulation      *)
(* (sim.rs).  Rust vectors are 0-based, TLA+ sequences are 1-based: the    *)
(* Rust element v[i] is v[i + 1] here; cursors, offsets and insertion      *)
(* indices keep their Rust (0-based) values.                               *)
(***************************************************************************)
EXTENDS Integers, Sequences, FiniteSets, TLC

VARIABLES scenario, current_state, cursor, last, erred, the_queue, the_decoder, the_persistent,
          the_files

vars ==
    <<scenario, current_state, cursor, last, erred, the_queue, the_decoder, the_persistent,
      the_files>>

(***************************************************************************)
(* Bounds of the model.                                                    *)
(***************************************************************************)
\* longest timeline the model explores
MaxLen == 4
\* longest timeline of a scenario handed to Simulation::from / set_scenario
MaxInit == 2
\* longest TestState::transitions vector the model explores
MaxTrans == 3

\* id tags carried by the events of the model
Ids == {0, 1}

(***************************************************************************)
(* Event kinds.  Append (AppendEv here, Append being the sequence          *)
(* operator), Faulty and UpdateQueue are the events of sim/tests.rs.       *)
(* Botched stands for an implementor of Event::apply that uses what the    *)
(* trait hands it before it fails: it mutates the state, stages an         *)
(* insertion in the queue and then returns a TransitionError.              *)
(***************************************************************************)
AppendEv(id) == [kind |-> "Append", id |-> id]

Faulty == [kind |-> "Faulty"]

UpdateQueue(insert_index, id_to_insert) ==
    [kind |-> "UpdateQueue", insert_index |-> insert_index, id_to_insert |-> id_to_insert]

Botched(id) == [kind |-> "Botched", id |-> id]

Events ==
    {AppendEv(id) : id \in Ids} \cup {Faulty} \cup {Botched(0)}
        \cup {UpdateQueue(i, 1) : i \in {0, 1}}

\* TestState { transitions: Vec<usize> }
TestState(transitions) == [transitions |-> transitions]

TestStateDefault == TestState(<<>>)

Initials == {TestStateDefault, TestState(<<2>>)}

RECURSIVE SeqsUpTo(_, _)
SeqsUpTo(S, n) ==
    IF n = 0 THEN {<<>>}
    ELSE LET shorter == SeqsUpTo(S, n - 1)
         IN  shorter \cup {Append(s, e) : s \in {t \in shorter : Len(t) = n - 1}, e \in S}

Scenario(initial, timeline) == [initial |-> initial, timeline |-> timeline]

Scenarios == {Scenario(i, t) : i \in Initials, t \in SeqsUpTo(Events, MaxInit)}

\* the scenarios handed to set_scenario
NewScenarios == {scn \in Scenarios : Len(scn.timeline) < MaxInit}

(***************************************************************************)
(* Queue (event.rs).  A queue that has panicked is the value QueuePanic.   *)
(***************************************************************************)
QueuePanic == [panic |-> TRUE]

\* no queue: queues exist only while an event is applied
QueueNone == [none |-> TRUE]

\* what is left of a vector whose insert panicked
VecPanic == <<[kind |-> "Panic"]>>

\* Vec::insert(index, element): panics if index > len
VecInsert(v, index, element) ==
    IF index > Len(v) THEN VecPanic
    ELSE SubSeq(v, 1, index) \o <<element>> \o SubSeq(v, index + 1, Len(v))

QueueNew(offset, timeline) ==
    IF offset >= 1 /\ offset <= Len(timeline)
    THEN [offset |-> offset, timeline |-> timeline, insertions |-> <<>>]
    ELSE QueuePanic

\* insert_later that shows the staged event at the end of the queue's view
insert_later_visible(queue, index, event) ==
    LET lim == Len(queue.timeline) + Len(queue.insertions) - queue.offset
    IN  IF index <= lim
        THEN [queue EXCEPT !.insertions = Append(@, <<index, event>>),
                           !.timeline = Append(@, event)]
        ELSE QueuePanic

\* insert_later whose limit leaves out the insertions already staged
insert_later_ignores_staged(queue, index, event) ==
    LET lim == Len(queue.timeline) - queue.offset
    IN  IF index <= lim
        THEN [queue EXCEPT !.insertions = Append(@, <<index, event>>)]
        ELSE QueuePanic

\* insert_later whose limit is one too large
insert_later_one_beyond(queue, index, event) ==
    LET lim == Len(queue.timeline) + Len(queue.insertions) - queue.offset + 1
    IN  IF index <= lim
        THEN [queue EXCEPT !.insertions = Append(@, <<index, event>>)]
        ELSE QueuePanic

insert_later(queue, index, event) ==
    LET lim == Len(queue.timeline) + Len(queue.insertions) - queue.offset
    IN  IF index <= lim
        THEN [queue EXCEPT !.insertions = Append(@, <<index, event>>)]
        ELSE QueuePanic

\* push_later that stages at the end of the future events, whatever is staged already
push_later_at_future_end(queue, event) ==
    insert_later(queue, Len(queue.timeline) - queue.offset, event)

push_later(queue, event) ==
    insert_later(queue, Len(queue.timeline) + Len(queue.insertions) - queue.offset, event)

past(queue) == SubSeq(queue.timeline, 1, queue.offset - 1)

future(queue) == SubSeq(queue.timeline, queue.offset + 1, Len(queue.timeline))

\* process_insertions that forgets the offset
RECURSIVE process_insertions_no_offset(_, _, _)
process_insertions_no_offset(offset, insertions, timeline) ==
    IF insertions = <<>> THEN timeline
    ELSE process_insertions_no_offset(offset, Tail(insertions),
             VecInsert(timeline, Head(insertions)[1], Head(insertions)[2]))

\* process_insertions that takes the offset for the index of the current event
RECURSIVE process_insertions_at_current(_, _, _)
process_insertions_at_current(offset, insertions, timeline) ==
    IF insertions = <<>> THEN timeline
    ELSE process_insertions_at_current(offset, Tail(insertions),
             VecInsert(timeline, offset - 1 + Head(insertions)[1], Head(insertions)[2]))

\* process_insertions that puts each event after the ones spliced in before it
RECURSIVE process_insertions_after_staged(_, _, _)
process_insertions_after_staged(offset, insertions, timeline) ==
    IF insertions = <<>> THEN timeline
    ELSE LET k == Len(insertions) - 1
             sofar == process_insertions_after_staged(offset, SubSeq(insertions, 1, k), timeline)
             at == offset + insertions[k + 1][1] + k
         IN  VecInsert(sofar, IF at > Len(sofar) THEN Len(sofar) ELSE at, insertions[k + 1][2])

\* process_insertions that overwrites the event at the position instead of shifting it
RECURSIVE process_insertions_overwrites(_, _, _)
process_insertions_overwrites(offset, insertions, timeline) ==
    IF insertions = <<>> THEN timeline
    ELSE LET at == offset + Head(insertions)[1]
         IN  process_insertions_overwrites(offset, Tail(insertions),
                 IF at < Len(timeline)
                 THEN [timeline EXCEPT ![at + 1] = Head(insertions)[2]]
                 ELSE Append(timeline, Head(insertions)[2]))

RECURSIVE process_insertions(_, _, _)
process_insertions(offset, insertions, timeline) ==
    IF insertions = <<>> \/ timeline = VecPanic THEN timeline
    ELSE process_insertions(offset, Tail(insertions),
                            VecInsert(timeline, offset + Head(insertions)[1], Head(insertions)[2]))

(***************************************************************************)
(* Event::apply of each event kind: the state and queue it leaves and      *)
(* whether it returned Ok, returned a TransitionError (Err) or panicked.   *)
(***************************************************************************)
Applied(state, queue, res) == [state |-> state, queue |-> queue, res |-> res]

ApplyAppend(event, state, queue) ==
    Applied([state EXCEPT !.transitions = Append(@, event.id)], queue, "Ok")

ApplyFaulty(event, state, queue) == Applied(state, queue, "Err")

ApplyUpdateQueue(event, state, queue) ==
    LET q == insert_later(queue, event.insert_index, AppendEv(event.id_to_insert))
    IN  IF q = QueuePanic THEN Applied(state, queue, "Panic") ELSE Applied(state, q, "Ok")

ApplyBotched(event, state, queue) ==
    Applied([state EXCEPT !.transitions = Append(@, event.id)],
            push_later(queue, AppendEv(event.id)), "Err")

(***************************************************************************)
(* The snail of examples/snail.rs: State{progress, days} in u16, Climb and *)
(* Slip stage each other.  The operators compute the wrapping result of    *)
(* the u16 arithmetic; ArithmeticOverflow tells when a build with overflow *)
(* checks panics instead.                                                  *)
(***************************************************************************)
WALL_HEIGHT == 10
CLIMB_STEP == 2
SLIP_STEP == 1

U16 == 2^16

Climb == [kind |-> "Climb"]
Slip == [kind |-> "Slip"]

State(progress, days) == [progress |-> progress, days |-> days]
StateDefault == State(0, 0)

ApplyClimb(event, state, queue) ==
    LET climbed == State((state.progress + CLIMB_STEP) % U16, (state.days + 1) % U16)
    IN  Applied(climbed,
                IF climbed.progress < WALL_HEIGHT THEN push_later(queue, Slip) ELSE queue,
                "Ok")

ApplySlip(event, state, queue) ==
    Applied([state EXCEPT !.progress = (@ + U16 - SLIP_STEP) % U16],
            push_later(queue, Climb), "Ok")

\* Append of the REPL's test fixtures (ReplAppend here): a duplicate id is an error
ReplAppend(id) == [kind |-> "ReplAppend", id |-> id]

ApplyReplAppend(event, state, queue) ==
    IF \E i \in 1..Len(state.transitions) : state.transitions[i] = event.id
    THEN Applied(state, queue, "Err")
    ELSE Applied([state EXCEPT !.transitions = Append(@, event.id)], queue, "Ok")

\* the u16 arithmetic of the event's apply leaves the range of u16
ArithmeticOverflow(event, state) ==
    CASE event.kind = "Climb" -> state.progress + CLIMB_STEP >= U16 \/ state.days + 1 >= U16
      [] event.kind = "Slip" -> state.progress < SLIP_STEP
      [] OTHER -> FALSE

apply(event, state, queue) ==
    CASE event.kind = "Append" -> ApplyAppend(event, state, queue)
      [] event.kind = "Climb" -> ApplyClimb(event, state, queue)
      [] event.kind = "Slip" -> ApplySlip(event, state, queue)
      [] event.kind = "Faulty" -> ApplyFaulty(event, state, queue)
      [] event.kind = "UpdateQueue" -> ApplyUpdateQueue(event, state, queue)
      [] event.kind = "Botched" -> ApplyBotched(event, state, queue)
      [] event.kind = "ReplAppend" -> ApplyReplAppend(event, state, queue)

(***************************************************************************)
(* Simulation (sim.rs).  Every operation takes the simulation and returns  *)
(* the simulation it leaves together with its result.                      *)
(***************************************************************************)
Simulation(scn, state, cur) == [scenario |-> scn, current_state |-> state, cursor |-> cur]

Outcome(sim, res) == [sim |-> sim, res |-> res]

\* impl From<Scenario<S>> for Simulation<S>
SimulationFrom(scn) == Simulation(scn, scn.initial, 0)

\* step that reports Ok when there is nothing left to apply
step_exhausted_ok(sim) == Outcome(sim, "Ok")

\* step, lines 41-43: the cursor is parked at the end of the timeline
step_exhausted(sim) == Outcome(sim, "TimelineExhausted")

\* step, lines 44-46: the event at the cursor is applied to current_state through a fresh queue
step_apply(sim) ==
    LET event == sim.scenario.timeline[sim.cursor + 1]
        queue == QueueNew(sim.cursor + 1, sim.scenario.timeline)
    IN  IF queue = QueuePanic
        THEN Applied(sim.current_state, queue, "Panic")
        ELSE apply(event, sim.current_state, queue)

\* step that restores the state it started from when apply fails
step_failed_rollback(sim, r) ==
    Outcome(sim, IF r.res = "Err" THEN "Transition" ELSE "Panic")

\* step that commits the staged insertions before it looks at the result of apply
step_failed_commits(sim, r) ==
    Outcome([sim EXCEPT !.current_state = r.state,
                        !.scenario.timeline =
                            IF r.queue = QueuePanic THEN @
                            ELSE process_insertions(r.queue.offset, r.queue.insertions, @)],
            IF r.res = "Err" THEN "Transition" ELSE "Panic")

\* step, line 46: `?` returns the error of apply; r is what apply left behind
step_failed(sim, r) ==
    Outcome([sim EXCEPT !.current_state = r.state],
            IF r.res = "Err" THEN "Transition" ELSE "Panic")

\* step that drops the staged insertions
step_commit_nothing(sim, r) ==
    Outcome(Simulation(sim.scenario, r.state, sim.cursor + 1), "Ok")

\* step, lines 47-50: the staged insertions are committed and the cursor advances
step_commit(sim, r) ==
    LET timeline == process_insertions(r.queue.offset, r.queue.insertions, sim.scenario.timeline)
    IN  IF timeline = VecPanic
        THEN Outcome([sim EXCEPT !.current_state = r.state], "Panic")
        ELSE Outcome(Simulation([sim.scenario EXCEPT !.timeline = timeline],
                                r.state, sim.cursor + 1), "Ok")

\* step that builds the queue without looking whether the cursor is at the end
step_unchecked(sim) ==
    LET r == step_apply(sim)
    IN  IF r.res = "Ok" THEN step_commit(sim, r) ELSE step_failed(sim, r)

step(sim) ==
    IF sim.cursor = Len(sim.scenario.timeline)
    THEN step_exhausted(sim)
    ELSE LET r == step_apply(sim)
         IN  IF r.res = "Ok" THEN step_commit(sim, r) ELSE step_failed(sim, r)

\* reset that starts over from S::default() instead of the scenario's initial state
reset_to_default(sim) == Simulation(sim.scenario, TestStateDefault, 0)

reset(sim) == Simulation(sim.scenario, sim.scenario.initial, 0)

\* jump loop that skips an event whose step failed and carries on
RECURSIVE JumpLoop_skips_failure(_, _)
JumpLoop_skips_failure(sim, location) ==
    IF sim.cursor < location
    THEN LET o == step(sim)
         IN  IF o.res = "Ok" THEN JumpLoop_skips_failure(o.sim, location)
             ELSE IF o.res = "Panic" THEN o
             ELSE JumpLoop_skips_failure([o.sim EXCEPT !.cursor = @ + 1], location)
    ELSE Outcome(sim, "Ok")

RECURSIVE JumpLoop(_, _)
JumpLoop(sim, location) ==
    IF sim.cursor < location
    THEN LET o == step(sim)
         IN  IF o.res = "Ok" THEN JumpLoop(o.sim, location) ELSE o
    ELSE Outcome(sim, "Ok")

\* jump that leaves the range check to the steps it takes
jump_unchecked(sim, location) ==
    JumpLoop(IF location < sim.cursor THEN reset(sim) ELSE sim, location)

\* jump that also resets when it is already at the location
jump_resets_at_cursor(sim, location) ==
    IF location > Len(sim.scenario.timeline)
    THEN Outcome(sim, "TimelineExhausted")
    ELSE JumpLoop(IF location <= sim.cursor THEN reset(sim) ELSE sim, location)

\* jump that takes one step more than it was asked for
jump_one_further(sim, location) ==
    IF location > Len(sim.scenario.timeline)
    THEN Outcome(sim, "TimelineExhausted")
    ELSE JumpLoop(IF location < sim.cursor THEN reset(sim) ELSE sim, location + 1)

jump(sim, location) ==
    IF location > Len(sim.scenario.timeline)
    THEN Outcome(sim, "TimelineExhausted")
    ELSE JumpLoop(IF location < sim.cursor THEN reset(sim) ELSE sim, location)

\* run that reads the length of the timeline once, before the loop
run_fixed_length(sim) == JumpLoop(sim, Len(sim.scenario.timeline))

\* run that skips an event whose step failed and carries on
RECURSIVE run_skips_failure(_)
run_skips_failure(sim) ==
    IF sim.cursor < Len(sim.scenario.timeline)
    THEN LET o == step(sim)
         IN  IF o.res = "Ok" THEN run_skips_failure(o.sim)
             ELSE IF o.res = "Panic" THEN o
             ELSE run_skips_failure([o.sim EXCEPT !.cursor = @ + 1])
    ELSE Outcome(sim, "Ok")

\* run that steps before it looks at the cursor
RECURSIVE run_steps_first(_)
run_steps_first(sim) ==
    LET o == step(sim)
    IN  IF o.res # "Ok" THEN o
        ELSE IF o.sim.cursor < Len(o.sim.scenario.timeline) THEN run_steps_first(o.sim)
        ELSE o

RECURSIVE run(_)
run(sim) ==
    IF sim.cursor < Len(sim.scenario.timeline)
    THEN LET o == step(sim)
         IN  IF o.res = "Ok" THEN run(o.sim) ELSE o
    ELSE Outcome(sim, "Ok")

\* run whose loop drops the error of a failed step
run_pass_ignores_error(sim) ==
    IF sim.cursor < Len(sim.scenario.timeline)
    THEN LET o == step(sim)
         IN  IF o.res = "Panic" THEN o ELSE Outcome(o.sim, "Running")
    ELSE Outcome(sim, "Ok")

\* one evaluation of the loop condition of run and, if it holds, of the body
run_pass(sim) ==
    IF sim.cursor < Len(sim.scenario.timeline)
    THEN LET o == step(sim)
         IN  IF o.res = "Ok" THEN Outcome(o.sim, "Running") ELSE o
    ELSE Outcome(sim, "Ok")

\* Err(SimulationError::TruncationRequired(event)): the error carries the rejected event
TruncationRequired(sim, event) ==
    [sim |-> sim, res |-> "TruncationRequired", rejected |-> event]

\* push_event that puts the event at the head of the timeline
push_event_first(sim, event) ==
    IF sim.cursor # Len(sim.scenario.timeline)
    THEN TruncationRequired(sim, event)
    ELSE Outcome([sim EXCEPT !.scenario.timeline = <<event>> \o @], "Ok")

\* push_event that appends wherever the cursor is
push_event_unchecked(sim, event) ==
    Outcome([sim EXCEPT !.scenario.timeline = Append(@, event)], "Ok")

\* push_event that reports a cursor before the end as an exhausted timeline
push_event_exhausted(sim, event) ==
    IF sim.cursor # Len(sim.scenario.timeline)
    THEN Outcome(sim, "TimelineExhausted")
    ELSE Outcome([sim EXCEPT !.scenario.timeline = Append(@, event)], "Ok")

push_event(sim, event) ==
    IF sim.cursor # Len(sim.scenario.timeline)
    THEN TruncationRequired(sim, event)
    ELSE Outcome([sim EXCEPT !.scenario.timeline = Append(@, event)], "Ok")

\* truncate that also drops the event before the cursor
truncate_short(sim) == [sim EXCEPT !.scenario.timeline = SubSeq(@, 1, sim.cursor - 1)]

\* truncate that keeps the event at the cursor
truncate_keeps_current(sim) ==
    [sim EXCEPT !.scenario.timeline = IF sim.cursor + 1 > Len(@) THEN @ ELSE SubSeq(@, 1, sim.cursor + 1)]

\* truncate that clears the timeline
truncate_clears(sim) == [sim EXCEPT !.scenario.timeline = <<>>]

truncate(sim) == [sim EXCEPT !.scenario.timeline = SubSeq(@, 1, sim.cursor)]

\* set_scenario that forgets to reset
set_scenario_no_reset(sim, scn) == [sim EXCEPT !.scenario = scn]

set_scenario(sim, scn) == reset([sim EXCEPT !.scenario = scn])

(***************************************************************************)
(* EventProxy (sequent-repl, commands/event_proxy.rs): the command that    *)
(* pushes an event and steps it.  responses are the answers the terminal   *)
(* has in store for the prompts to come, prompts counts the prompts made.  *)
(* Printing the state is taken to succeed.                                 *)
(***************************************************************************)
Proxied(sim, res, prompts) == [sim |-> sim, res |-> res, prompts |-> prompts]

\* the Ok arm that takes a rejected event out of the timeline again
EventProxyStep_undoes_push(sim, prompts) ==
    LET o == step(sim)
    IN  IF o.res = "Ok" THEN Proxied(o.sim, "Applied", prompts)
        ELSE Proxied(truncate(o.sim), o.res, prompts)

\* the Ok arm, lines 37-42: the event is in the timeline and is stepped
EventProxyStep(sim, prompts) ==
    LET o == step(sim)
    IN  Proxied(o.sim, IF o.res = "Ok" THEN "Applied" ELSE o.res, prompts)

\* the loop that, after a Yes, truncates and reports the event as applied
\* without pushing it again
EventProxyLoop_no_retry(sim, event, responses, prompts) ==
    LET pushed == push_event(sim, event)
    IN  CASE pushed.res = "Ok" -> EventProxyStep(pushed.sim, prompts)
          [] pushed.res = "TruncationRequired" ->
                 IF responses = <<>> \/ Head(responses) = "Error"
                 THEN Proxied(sim, "AccessTerminal", prompts + 1)
                 ELSE IF Head(responses) = "Yes"
                 THEN Proxied(truncate(sim), "Applied", prompts + 1)
                 ELSE Proxied(sim, "Skipped", prompts + 1)
          [] OTHER -> Proxied(sim, "Unreachable", prompts)

\* the loop of apply, lines 34-59
RECURSIVE EventProxyLoop(_, _, _, _)
EventProxyLoop(sim, event, responses, prompts) ==
    LET pushed == push_event(sim, event)
    IN  CASE pushed.res = "Ok" -> EventProxyStep(pushed.sim, prompts)
          [] pushed.res = "TruncationRequired" ->
                 IF responses = <<>> \/ Head(responses) = "Error"
                 THEN Proxied(sim, "AccessTerminal", prompts + 1)
                 ELSE IF Head(responses) = "Yes"
                 THEN EventProxyLoop(truncate(sim), pushed.rejected, Tail(responses),
                                     prompts + 1)
                 ELSE Proxied(sim, "Skipped", prompts + 1)
          [] OTHER -> Proxied(sim, "Unreachable", prompts)

\* EventProxy::apply
EventProxyApply(sim, event, responses) == EventProxyLoop(sim, event, responses, 0)


(***************************************************************************)
(* Strings, as the sequences of their characters, and the conversions the  *)
(* events of the persistence tests and of the REPL's fixtures make.        *)
(***************************************************************************)
Digits == <<"0", "1", "2", "3", "4", "5", "6", "7", "8", "9">>

IsDigit(c) == \E i \in 1..Len(Digits) : Digits[i] = c

DigitValue(c) == (CHOOSE i \in 1..Len(Digits) : Digits[i] = c) - 1

\* usize::to_string
RECURSIVE Decimal(_)
Decimal(n) ==
    IF n < Len(Digits) THEN <<Digits[n + 1]>>
    ELSE Decimal(n \div Len(Digits)) \o <<Digits[(n % Len(Digits)) + 1]>>

RECURSIVE DigitsValue(_)
DigitsValue(s) ==
    IF s = <<>> THEN 0
    ELSE DigitsValue(SubSeq(s, 1, Len(s) - 1)) * Len(Digits) + DigitValue(s[Len(s)])

ParseOk(event) == [res |-> "Ok", event |-> event]

\* Err(ParseEventError(..))
ParseErr(error, about) == [res |-> "Err", error |-> error, about |-> about]

\* usize::from_str: an optional plus sign, then one or more decimal digits
ParseUsize(s) ==
    LET body == IF s # <<>> /\ s[1] = "+" THEN Tail(s) ELSE s
    IN  IF body = <<>> \/ \E i \in 1..Len(body) : ~IsDigit(body[i])
        THEN ParseErr("invalid digit", s)
        ELSE ParseOk(DigitsValue(body))

\* [String]::join(sep)
RECURSIVE Join(_, _)
Join(words, sep) ==
    IF words = <<>> THEN <<>>
    ELSE IF Len(words) = 1 THEN words[1]
    ELSE words[1] \o sep \o Join(Tail(words), sep)

\* str::split_whitespace, word being the characters read since the last space
RECURSIVE SplitWords(_, _)
SplitWords(s, word) ==
    LET done == IF word = <<>> THEN <<>> ELSE <<word>>
    IN  IF s = <<>> THEN done
        ELSE IF Head(s) = " " THEN done \o SplitWords(Tail(s), <<>>)
        ELSE SplitWords(Tail(s), Append(word, Head(s)))

SplitWhitespace(s) == SplitWords(s, <<>>)

\* TestEvent(Vec<String>) of persistence/yaml/tests.rs
TestEvent(words) == [kind |-> "TestEvent", words |-> words]

\* SampleEvent of event/tests.rs
SampleEvent == [kind |-> "SampleEvent"]

\* Named::name
name(event) ==
    CASE event.kind = "TestEvent" -> "test"
      [] event.kind = "Append" -> "append"
      [] event.kind = "SampleEvent" -> "test-event"

\* ToString::to_string
to_string(event) ==
    CASE event.kind = "TestEvent" -> Join(event.words, <<" ">>)
      [] event.kind = "Append" -> Decimal(event.id)
      [] event.kind = "SampleEvent" -> <<>>

\* FromStr::from_str of each kind of event
from_str(kind, s) ==
    CASE kind = "TestEvent" -> ParseOk(TestEvent(SplitWhitespace(s)))
      [] kind = "Append" ->
             IF ParseUsize(s).res = "Ok" THEN ParseOk(AppendEv(ParseUsize(s).event))
             ELSE ParseUsize(s)
      [] kind = "SampleEvent" ->
             IF s = <<>> THEN ParseOk(SampleEvent) ELSE ParseErr("invalid arguments", s)

\* a NamedEventParser: the name it is registered under and the kind of event it parses
NamedEventParser(nm, kind) == [name |-> nm, kind |-> kind]

\* Parser<E>: named as E is
Parser(kind) ==
    NamedEventParser(CASE kind = "TestEvent" -> "test" [] kind = "Append" -> "append", kind)

\* NamedEventParser::parse
parse(parser, s) == from_str(parser.kind, s)

(***************************************************************************)
(* Decoder (event.rs) and PersistentScenario (persistence.rs).             *)
(***************************************************************************)
DecoderNone == [none |-> TRUE]

\* Err(InvalidEventParserSpec("duplicate event parser for '<name>'"))
InvalidEventParserSpec(nm) == [invalid |-> "duplicate event parser", name |-> nm]

IsDecoder(d) == "by_name" \in DOMAIN d

\* try_from that lets a later parser replace an earlier one of the same name
RECURSIVE DecoderTryFromLoop_overwrites(_, _)
DecoderTryFromLoop_overwrites(parsers, by_name) ==
    IF parsers = <<>> THEN [by_name |-> by_name]
    ELSE DecoderTryFromLoop_overwrites(
             Tail(parsers),
             [n \in DOMAIN by_name \cup {Head(parsers).name} |->
                 IF n = Head(parsers).name THEN Head(parsers) ELSE by_name[n]])

\* the loop of try_from over the parsers still to insert
RECURSIVE DecoderTryFromLoop(_, _)
DecoderTryFromLoop(parsers, by_name) ==
    IF parsers = <<>> THEN [by_name |-> by_name]
    ELSE IF Head(parsers).name \in DOMAIN by_name
         THEN InvalidEventParserSpec(Head(parsers).name)
         ELSE DecoderTryFromLoop(
                  Tail(parsers),
                  [n \in DOMAIN by_name \cup {Head(parsers).name} |->
                      IF n = Head(parsers).name THEN Head(parsers) ELSE by_name[n]])

\* impl TryFrom<Vec<Box<dyn NamedEventParser<S>>>> for Decoder<S>
DecoderTryFrom(parsers) == DecoderTryFromLoop(parsers, [n \in {} |-> n])

\* decode that reports every failure as a missing parser
decode_hides_error(decoder, nm, encoded) ==
    IF nm \in DOMAIN decoder.by_name /\ parse(decoder.by_name[nm], encoded).res = "Ok"
    THEN parse(decoder.by_name[nm], encoded)
    ELSE ParseErr("no event parser", nm)

\* Decoder::decode
decode(decoder, nm, encoded) ==
    IF nm \in DOMAIN decoder.by_name THEN parse(decoder.by_name[nm], encoded)
    ELSE ParseErr("no event parser", nm)

PersistentNone == [none |-> TRUE]

PersistentEvent(nm, encoded) == [name |-> nm, encoded |-> encoded]

PersistentScenario(initial, timeline) == [initial |-> initial, timeline |-> timeline]

\* PersistentScenario::from(&scenario)
PersistentScenarioFrom(scn) ==
    PersistentScenario(scn.initial,
                       [i \in 1..Len(scn.timeline) |->
                           PersistentEvent(name(scn.timeline[i]), to_string(scn.timeline[i]))])

\* decode that puts each decoded event in front of the ones before it
RECURSIVE PersistentDecodeLoop_prepends(_, _, _)
PersistentDecodeLoop_prepends(events, decoder, timeline) ==
    IF events = <<>> THEN [res |-> "Ok", timeline |-> timeline]
    ELSE LET r == decode(decoder, Head(events).name, Head(events).encoded)
         IN  IF r.res = "Ok"
             THEN PersistentDecodeLoop_prepends(Tail(events), decoder, <<r.event>> \o timeline)
             ELSE r

\* decode that leaves out the events it cannot decode
RECURSIVE PersistentDecodeLoop_skips(_, _, _)
PersistentDecodeLoop_skips(events, decoder, timeline) ==
    IF events = <<>> THEN [res |-> "Ok", timeline |-> timeline]
    ELSE LET r == decode(decoder, Head(events).name, Head(events).encoded)
         IN  PersistentDecodeLoop_skips(Tail(events), decoder,
                 IF r.res = "Ok" THEN Append(timeline, r.event) ELSE timeline)

\* the loop of decode over the events still to decode; `?` returns the first error
RECURSIVE PersistentDecodeLoop(_, _, _)
PersistentDecodeLoop(events, decoder, timeline) ==
    IF events = <<>> THEN [res |-> "Ok", timeline |-> timeline]
    ELSE LET r == decode(decoder, Head(events).name, Head(events).encoded)
         IN  IF r.res = "Ok"
             THEN PersistentDecodeLoop(Tail(events), decoder, Append(timeline, r.event))
             ELSE r

\* PersistentScenario::decode
PersistentDecode(persistent, decoder) ==
    LET r == PersistentDecodeLoop(persistent.timeline, decoder, <<>>)
    IN  IF r.res = "Ok"
        THEN [res |-> "Ok", scenario |-> Scenario(persistent.initial, r.timeline)]
        ELSE [res |-> "ParseEvent", error |-> r]

(***************************************************************************)
(* The YAML file codec (persistence/yaml.rs).  A path is the sequence of   *)
(* its characters.  The file system is the contents of the files that      *)
(* exist, together with the file-system calls the last operation made.  A  *)
(* file holds the YAML of a PersistentScenario, or text that is not one.   *)
(***************************************************************************)
EXT == <<"y", "a", "m", "l">>

\* Path::file_name: what follows the last separator
FileName(path) ==
    LET seps == {i \in 1..Len(path) : path[i] = "/"}
    IN  IF seps = {} THEN path
        ELSE SubSeq(path, (CHOOSE i \in seps : \A j \in seps : j <= i) + 1, Len(path))

\* Path::extension, with unwrap_or_default: what follows the last dot of the
\* file name, nothing if there is no dot or the only dot leads the name
Extension(path) ==
    LET file == FileName(path)
        dots == {i \in 1..Len(file) : file[i] = "."}
    IN  IF dots = {} THEN <<>>
        ELSE LET lastdot == CHOOSE i \in dots : \A j \in dots : j <= i
             IN  IF lastdot = 1 THEN <<>> ELSE SubSeq(file, lastdot + 1, Len(file))

\* Err(UnsupportedFileFormatError("expected file extension '<expected>', got '<ext>'"))
UnsupportedFileFormatError(expected, ext) ==
    [res |-> "UnsupportedFileFormat", expected |-> expected, got |-> ext]

check_ext(path, expected) ==
    IF Extension(path) = expected THEN [res |-> "Ok"]
    ELSE UnsupportedFileFormatError(expected, Extension(path))

\* no file exists and no call has been made
NoFiles == [files |-> [p \in {} |-> p], accessed |-> <<>>]

\* Carrier::to_string: the YAML of a PersistentScenario
Yaml(persistent) == [yaml |-> persistent]

\* text that is not the YAML of a PersistentScenario
NotYaml == [text |-> "not a valid scenario"]

\* Carrier::from_str
IsYaml(content) == "yaml" \in DOMAIN content

\* Io(Os { code: 2, kind: NotFound, .. })
NotFound == [os |-> "NotFound"]

\* only the working directory exists
DirExists(path) == \A i \in 1..Len(path) : path[i] # "/"

Accessed(fs, call, path) == [fs EXCEPT !.accessed = Append(@, <<call, path>>)]

\* File::create: creates the file or truncates it to no text; fails in a directory
\* that does not exist
FileCreate(fs, path) ==
    IF DirExists(path)
    THEN [res |-> "Ok",
          fs |-> [Accessed(fs, "create", path) EXCEPT
                     !.files = [p \in DOMAIN @ \cup {path} |-> IF p = path THEN [text |-> ""] ELSE @[p]]]]
    ELSE [res |-> "Io", fs |-> Accessed(fs, "create", path)]

\* File::open: fails when the file does not exist
FileOpen(fs, path) ==
    [res |-> IF path \in DOMAIN fs.files THEN "Ok" ELSE "Io", fs |-> Accessed(fs, "open", path)]

\* write (persistence.rs) and the flush: the YAML of the scenario becomes the content
write(fs, scn, path) ==
    [Accessed(fs, "write", path) EXCEPT !.files[path] = Yaml(PersistentScenarioFrom(scn))]

\* read (persistence.rs): the content is read, deserialized and decoded
read(fs, decoder, path) ==
    LET content == fs.files[path]
        fs_read == Accessed(fs, "read", path)
    IN  IF ~IsYaml(content)
        THEN [res |-> "Deserializer", fs |-> fs_read, error |-> content]
        ELSE LET r == PersistentDecode(content.yaml, decoder)
             IN  IF r.res = "Ok"
                 THEN [res |-> "Ok", fs |-> fs_read, scenario |-> r.scenario]
                 ELSE [res |-> "ParseEvent", fs |-> fs_read, error |-> r.error]

read_from_file(fs, decoder, path) ==
    IF check_ext(path, EXT).res # "Ok"
    THEN [res |-> "UnsupportedFileFormat", fs |-> fs, error |-> check_ext(path, EXT)]
    ELSE LET opened == FileOpen(fs, path)
         IN  IF opened.res # "Ok"
             THEN [res |-> "Io", fs |-> opened.fs, error |-> NotFound]
             ELSE read(opened.fs, decoder, path)

\* write_to_file that creates the file before it looks at the extension
write_to_file_creates_first(fs, scn, path) ==
    LET created == FileCreate(fs, path)
    IN  IF check_ext(path, EXT).res # "Ok"
        THEN [res |-> "UnsupportedFileFormat", fs |-> created.fs, error |-> check_ext(path, EXT)]
        ELSE IF created.res # "Ok"
        THEN [res |-> "Io", fs |-> created.fs, error |-> NotFound]
        ELSE [res |-> "Ok", fs |-> write(created.fs, scn, path)]

write_to_file(fs, scn, path) ==
    IF check_ext(path, EXT).res # "Ok"
    THEN [res |-> "UnsupportedFileFormat", fs |-> fs, error |-> check_ext(path, EXT)]
    ELSE LET created == FileCreate(fs, path)
         IN  IF created.res # "Ok"
             THEN [res |-> "Io", fs |-> created.fs, error |-> NotFound]
             ELSE [res |-> "Ok", fs |-> write(created.fs, scn, path)]

(***************************************************************************)
(* The state machine: one Simulation, driven by its public operations.     *)
(* last records the operation that produced the state: its name, its       *)
(* argument, its result, and the cursor and timeline length it started     *)
(* from.  erred records that some apply has returned a TransitionError.    *)
(* last.rejected is the event a failed push_event handed back, kept while  *)
(* the caller truncates; last.retry says that a push_event is the retry of *)
(* that event right after the truncate.                                    *)
(***************************************************************************)
sim == Simulation(scenario, current_state, cursor)

NoArg == "-"

\* no event: nothing was rejected
NoEvent == [kind |-> "None"]

Rejected(op, o) ==
    CASE "rejected" \in DOMAIN o -> o.rejected
      [] op = "truncate" /\ last.op = "push_event" -> last.rejected
      [] OTHER -> NoEvent

Call(op, arg, o) ==
    [op |-> op, arg |-> arg, res |-> o.res, from |-> cursor, n |-> Len(scenario.timeline),
     rejected |-> Rejected(op, o),
     retry |-> (op = "push_event" /\ last.op = "truncate" /\ last.rejected = arg)]

\* the model stops at a panic, and explores timelines and states within the bounds
Explored(o) ==
    /\ last.res # "Panic"
    /\ Len(o.sim.scenario.timeline) <= MaxLen
    /\ Len(o.sim.current_state.transitions) <= MaxTrans

Becomes(op, arg, o) ==
    /\ Explored(o)
    /\ scenario' = o.sim.scenario
    /\ current_state' = o.sim.current_state
    /\ cursor' = o.sim.cursor
    /\ last' = Call(op, arg, o)
    /\ erred' = (erred \/ o.res = "Transition")
    /\ the_queue' = QueueNone
    /\ UNCHANGED <<the_decoder, the_persistent, the_files>>

Init ==
    \E scn \in Scenarios :
        /\ scenario = SimulationFrom(scn).scenario
        /\ current_state = SimulationFrom(scn).current_state
        /\ cursor = SimulationFrom(scn).cursor
        /\ last = [op |-> "from", arg |-> NoArg, res |-> "Ok", from |-> 0, n |-> Len(scn.timeline),
                   rejected |-> NoEvent, retry |-> FALSE]
        /\ erred = FALSE
        /\ the_queue = QueueNone
        /\ the_decoder = DecoderNone
        /\ the_persistent = PersistentNone
        /\ the_files = NoFiles

Step == Becomes("step", NoArg, step(sim))

Reset == Becomes("reset", NoArg, Outcome(reset(sim), "Ok"))

Jump == \E location \in 0..(MaxLen + 1) : Becomes("jump", location, jump(sim, location))

Run == Becomes("run", NoArg, run(sim))

PushEvent == \E event \in Events : Becomes("push_event", event, push_event(sim, event))

Truncate == Becomes("truncate", NoArg, Outcome(truncate(sim), "Ok"))

SetScenario == \E scn \in NewScenarios : Becomes("set_scenario", scn, Outcome(set_scenario(sim, scn), "Ok"))

Next == Step \/ Reset \/ Jump \/ Run \/ PushEvent \/ Truncate \/ SetScenario

Spec == Init /\ [][Next]_vars

(***************************************************************************)
(* The Simulation over scenarios whose UpdateQueue inserts two events      *)
(* ahead: whether its apply panics depends on how long the timeline is     *)
(* when it is applied, so a replay after truncate() can panic where the    *)
(* first pass did not.                                                     *)
(***************************************************************************)
FarScenarios ==
    {Scenario(TestStateDefault, t) :
        t \in SeqsUpTo({UpdateQueue(2, 1), AppendEv(0)}, MaxLen - 1)}

FarInit ==
    \E scn \in FarScenarios :
        /\ scenario = SimulationFrom(scn).scenario
        /\ current_state = SimulationFrom(scn).current_state
        /\ cursor = SimulationFrom(scn).cursor
        /\ last = [op |-> "from", arg |-> NoArg, res |-> "Ok", from |-> 0,
                   n |-> Len(scn.timeline), rejected |-> NoEvent, retry |-> FALSE]
        /\ erred = FALSE
        /\ the_queue = QueueNone
        /\ the_decoder = DecoderNone
        /\ the_persistent = PersistentNone
        /\ the_files = NoFiles

SpecFar == FarInit /\ [][Next]_vars

(***************************************************************************)
(* The Queue on its own, as event/tests.rs drives it: a queue is built     *)
(* over a timeline of IndexedEvents, the body of an apply makes its        *)
(* insert_later and push_later calls, and the insertions are committed as  *)
(* step() does (into_inner, process_insertions, cursor += 1).              *)
(***************************************************************************)
\* longest timeline a queue is built over
MaxQueueLen == 3
\* most insertions staged in one queue
MaxStaged == 3

IndexedEvent(index) == [kind |-> "IndexedEvent", index |-> index]

\* indexed_events(0..n)
indexed_events(n) == [i \in 1..n |-> IndexedEvent(i - 1)]

\* the event staged by the k-th call, as in the tests: 10, 20, 30
NextStaged == IndexedEvent(10 * (Len(the_queue.insertions) + 1))

QueueCall(op, arg, res) ==
    [op |-> op, arg |-> arg, res |-> res, from |-> cursor, n |-> Len(scenario.timeline),
     rejected |-> NoEvent, retry |-> FALSE]

QueueInit ==
    \E n \in 1..MaxQueueLen, offset \in 1..MaxQueueLen :
        /\ offset <= n
        /\ scenario = Scenario(TestStateDefault, indexed_events(n))
        /\ current_state = TestStateDefault
        /\ cursor = offset - 1
        /\ the_queue = QueueNew(offset, indexed_events(n))
        /\ the_decoder = DecoderNone
        /\ the_persistent = PersistentNone
        /\ the_files = NoFiles
        /\ last = [op |-> "new", arg |-> offset, res |-> "Ok", from |-> offset - 1, n |-> n,
                   rejected |-> NoEvent, retry |-> FALSE]
        /\ erred = FALSE

\* the queue is in the hands of an apply that has not panicked
QueueLive == the_queue # QueueNone /\ last.res # "Panic"

\* a call on the queue: it stages the insertion, or it panics and stages nothing
QueueBecomes(op, arg, q) ==
    /\ the_queue' = IF q = QueuePanic THEN the_queue ELSE q
    /\ last' = QueueCall(op, arg, IF q = QueuePanic THEN "Panic" ELSE "Ok")
    /\ UNCHANGED <<scenario, current_state, cursor, erred, the_decoder, the_persistent, the_files>>

InsertLater ==
    /\ QueueLive
    /\ Len(the_queue.insertions) < MaxStaged
    /\ \E index \in 0..(MaxQueueLen + MaxStaged) :
           QueueBecomes("insert_later", <<index, NextStaged>>,
                        insert_later(the_queue, index, NextStaged))

PushLater ==
    /\ QueueLive
    /\ Len(the_queue.insertions) < MaxStaged
    /\ QueueBecomes("push_later", NextStaged, push_later(the_queue, NextStaged))

\* step, lines 47-49: apply has returned Ok
Commit ==
    /\ QueueLive
    /\ LET timeline == process_insertions(the_queue.offset, the_queue.insertions,
                                          scenario.timeline)
       IN  IF timeline = VecPanic
           THEN /\ UNCHANGED <<scenario, cursor>>
                /\ last' = QueueCall("commit", the_queue.insertions, "Panic")
           ELSE /\ scenario' = [scenario EXCEPT !.timeline = timeline]
                /\ cursor' = cursor + 1
                /\ last' = QueueCall("commit", the_queue.insertions, "Ok")
    /\ the_queue' = QueueNone
    /\ UNCHANGED <<current_state, erred, the_decoder, the_persistent, the_files>>

QueueNext == InsertLater \/ PushLater \/ Commit

SpecQueue == QueueInit /\ [][QueueNext]_vars

(***************************************************************************)
(* run(), one pass of its loop at a time, over the scenarios of the tests  *)
(* and over snail scenarios.  The loop runs to its end once run() has been *)
(* called: the engine is synchronous, so the passes are weakly fair.       *)
(***************************************************************************)
\* longest timeline of Climb and Slip a snail scenario starts with
MaxSnail == 2

SnailInitials ==
    {State(p, d) : p \in {0, 1, WALL_HEIGHT - CLIMB_STEP, WALL_HEIGHT, U16 - 1},
                   d \in {0, U16 - 1}}

SnailScenarios ==
    {Scenario(i, t) : i \in SnailInitials, t \in SeqsUpTo({Climb, Slip}, MaxSnail)}

\* what a pass can leave: the wrapped result, or a panic where the build checks overflow
RunPasses ==
    {run_pass(sim)} \cup
    (IF cursor < Len(scenario.timeline)
        /\ ArithmeticOverflow(scenario.timeline[cursor + 1], current_state)
     THEN {Outcome(sim, "Panic")} ELSE {})

RunInit ==
    \E scn \in Scenarios \cup SnailScenarios :
        /\ scenario = SimulationFrom(scn).scenario
        /\ current_state = SimulationFrom(scn).current_state
        /\ cursor = SimulationFrom(scn).cursor
        /\ last = [op |-> "from", arg |-> NoArg, res |-> "Ok", from |-> 0,
                   n |-> Len(scn.timeline), rejected |-> NoEvent, retry |-> FALSE]
        /\ erred = FALSE
        /\ the_queue = QueueNone
        /\ the_decoder = DecoderNone
        /\ the_persistent = PersistentNone
        /\ the_files = NoFiles

RunCall ==
    /\ last.op = "from"
    /\ last' = [Call("run", NoArg, Outcome(sim, "Running")) EXCEPT !.rejected = NoEvent]
    /\ UNCHANGED <<scenario, current_state, cursor, erred, the_queue, the_decoder, the_persistent, the_files>>

RunPass ==
    /\ last.res = "Running"
    /\ \E o \in RunPasses :
           /\ scenario' = o.sim.scenario
           /\ current_state' = o.sim.current_state
           /\ cursor' = o.sim.cursor
           /\ last' = [last EXCEPT !.res = o.res]
           /\ erred' = (erred \/ o.res = "Transition")
    /\ UNCHANGED <<the_queue, the_decoder, the_persistent, the_files>>

RunNext == RunCall \/ RunPass

SpecRun == RunInit /\ [][RunNext]_vars /\ WF_vars(RunPass)

(***************************************************************************)
(* Persistence: a decoder is built from a list of parsers, the scenario at *)
(* hand is flattened into a PersistentScenario, a PersistentScenario is    *)
(* read from a file, and the PersistentScenario at hand is decoded, which  *)
(* consumes it.                                                            *)
(***************************************************************************)
\* longest timeline that is persisted and longest list of parsers
MaxPersist == 2

\* TestState{some_string, some_f64} of persistence/yaml/tests.rs
YamlTestState(some_string) == [some_string |-> some_string, some_f64 |-> "3.14"]

PersistEvents ==
    {TestEvent(<< <<"a">>, <<"b">> >>), TestEvent(<< <<"a", " ", "b">> >>),
     TestEvent(<< <<>>, <<"a">> >>), AppendEv(12), SampleEvent}

PersistScenarios ==
    {Scenario(YamlTestState("hello"), t) : t \in SeqsUpTo(PersistEvents, MaxPersist)}

Parsers == {Parser("TestEvent"), Parser("Append"), NamedEventParser("test", "SampleEvent")}

\* what a file can hold
StoredEvents ==
    {PersistentEvent("test", <<"a", " ", "b">>), PersistentEvent("append", <<"x">>),
     PersistentEvent("gg", <<>>)}

StoredScenarios ==
    {PersistentScenario(YamlTestState("bye"), t) : t \in SeqsUpTo(StoredEvents, MaxPersist)}

PersistCall(op, arg, res, rejected) ==
    [op |-> op, arg |-> arg, res |-> res, from |-> cursor, n |-> Len(scenario.timeline),
     rejected |-> rejected, retry |-> FALSE]

PersistInit ==
    \E scn \in PersistScenarios :
        /\ scenario = scn
        /\ current_state = scn.initial
        /\ cursor = 0
        /\ last = [op |-> "from", arg |-> NoArg, res |-> "Ok", from |-> 0,
                   n |-> Len(scn.timeline), rejected |-> NoEvent, retry |-> FALSE]
        /\ erred = FALSE
        /\ the_queue = QueueNone
        /\ the_decoder = DecoderNone
        /\ the_persistent = PersistentNone
        /\ the_files = NoFiles

\* Decoder::try_from(parsers), at setup; after an error the caller may try another list
TryFromParsers ==
    /\ ~IsDecoder(the_decoder)
    /\ the_persistent = PersistentNone
    /\ \E parsers \in SeqsUpTo(Parsers, MaxPersist) :
           LET d == DecoderTryFrom(parsers)
           IN  /\ the_decoder' = IF IsDecoder(d) THEN d ELSE DecoderNone
               /\ last' = PersistCall("try_from", parsers,
                                      IF IsDecoder(d) THEN "Ok" ELSE "InvalidEventParserSpec",
                                      IF IsDecoder(d) THEN NoEvent ELSE d)
    /\ UNCHANGED <<scenario, current_state, cursor, erred, the_queue, the_persistent, the_files>>

\* PersistentScenario::from(&scenario)
PersistentFrom ==
    /\ the_persistent' = PersistentScenarioFrom(scenario)
    /\ last' = PersistCall("from_scenario", NoArg, "Ok", NoEvent)
    /\ UNCHANGED <<scenario, current_state, cursor, erred, the_queue, the_decoder, the_files>>

\* read, up to carrier.into_inner(): the file holds any PersistentScenario
ReadPersistent ==
    /\ \E stored \in StoredScenarios : the_persistent' = stored
    /\ last' = PersistCall("read", NoArg, "Ok", NoEvent)
    /\ UNCHANGED <<scenario, current_state, cursor, erred, the_queue, the_decoder, the_files>>

\* persistent.decode(&decoder): the scenario it returns takes the place of the one at hand
Decode ==
    /\ IsDecoder(the_decoder)
    /\ the_persistent # PersistentNone
    /\ LET r == PersistentDecode(the_persistent, the_decoder)
       IN  /\ scenario' = IF r.res = "Ok" THEN r.scenario ELSE scenario
           /\ last' = PersistCall("decode", the_persistent, r.res,
                                  IF r.res = "Ok" THEN NoEvent ELSE r.error)
    /\ the_persistent' = PersistentNone
    /\ UNCHANGED <<current_state, cursor, erred, the_queue, the_decoder, the_files>>

PersistNext == TryFromParsers \/ PersistentFrom \/ ReadPersistent \/ Decode

SpecPersist == PersistInit /\ [][PersistNext]_vars

(***************************************************************************)
(* The Decoder on its own, as event/tests.rs drives it: it is built from a *)
(* list of parsers and asked to decode (name, encoded) pairs.              *)
(***************************************************************************)
\* the names and encoded forms handed to Decoder::decode
DecodeNames == {"test", "append", "unknown"}

DecodeEncoded ==
    {<<>>, <<"0">>, <<"1", "2">>, <<"+", "7">>, <<"a", " ", "b">>, <<"b", "a", "d">>}

DecoderInit ==
    /\ scenario = Scenario(YamlTestState("hello"), <<>>)
    /\ current_state = scenario.initial
    /\ cursor = 0
    /\ last = [op |-> "from", arg |-> NoArg, res |-> "Ok", from |-> 0, n |-> 0,
               rejected |-> NoEvent, retry |-> FALSE]
    /\ erred = FALSE
    /\ the_queue = QueueNone
    /\ the_decoder = DecoderNone
    /\ the_persistent = PersistentNone
    /\ the_files = NoFiles

\* decoder.decode(name, encoded): last.rejected is what it returned
DecodeEvent ==
    /\ IsDecoder(the_decoder)
    /\ \E nm \in DecodeNames, encoded \in DecodeEncoded :
           LET r == decode(the_decoder, nm, encoded)
           IN  last' = PersistCall("decode_event", <<nm, encoded>>, r.res, r)
    /\ UNCHANGED <<scenario, current_state, cursor, erred, the_queue, the_decoder, the_persistent, the_files>>

DecoderNext == TryFromParsers \/ DecodeEvent

SpecDecoder == DecoderInit /\ [][DecoderNext]_vars

(***************************************************************************)
(* The file codec, as persistence/yaml/tests.rs drives it: the scenario at *)
(* hand is written to a path, and a scenario is read from a path with the  *)
(* decoder at hand.                                                        *)
(***************************************************************************)
\* data.json, data.yaml, nonexistent_dir/data.yaml, a name without a dot and
\* a name that is nothing but a dot and "yaml"
Paths ==
    {<<"d", ".", "j", "s", "o", "n">>, <<"d", ".", "y", "a", "m", "l">>,
     <<"n", "/", "d", ".", "y", "a", "m", "l">>, <<"y", "a", "m", "l">>,
     <<".", "y", "a", "m", "l">>}

\* the files that exist at the start: a file of each content under each name
FileSystems ==
    {NoFiles} \cup
    {[NoFiles EXCEPT !.files = [p \in {<<"d", ".", "j", "s", "o", "n">>,
                                       <<"d", ".", "y", "a", "m", "l">>,
                                       <<".", "y", "a", "m", "l">>} |-> content]] :
        content \in {NotYaml, Yaml(PersistentScenario(YamlTestState("bye"), <<>>))}}

\* the decoder is Decoder::new(vec![Box::new(Parser::<TestEvent>::default())]) or
\* Decoder::new(vec![])
FileInit ==
    \E scn \in {scn \in PersistScenarios : Len(scn.timeline) <= 1},
       dec \in {DecoderTryFrom(<<Parser("TestEvent")>>), DecoderTryFrom(<<>>)},
       fs \in FileSystems :
        /\ scenario = scn
        /\ current_state = scn.initial
        /\ cursor = 0
        /\ last = [op |-> "from", arg |-> NoArg, res |-> "Ok", from |-> 0,
                   n |-> Len(scn.timeline), rejected |-> NoEvent, retry |-> FALSE]
        /\ erred = FALSE
        /\ the_queue = QueueNone
        /\ the_decoder = dec
        /\ the_persistent = PersistentNone
        /\ the_files = fs

\* a call starts with nothing accessed yet
WriteToFile ==
    /\ \E path \in Paths :
           LET o == write_to_file([the_files EXCEPT !.accessed = <<>>], scenario, path)
           IN  /\ the_files' = o.fs
               /\ last' = PersistCall("write_to_file", path, o.res,
                                      IF o.res = "Ok" THEN NoEvent ELSE o.error)
    /\ UNCHANGED <<scenario, current_state, cursor, erred, the_queue, the_decoder, the_persistent>>

\* the scenario read takes the place of the one at hand
ReadFromFile ==
    /\ \E path \in Paths :
           LET o == read_from_file([the_files EXCEPT !.accessed = <<>>], the_decoder, path)
           IN  /\ the_files' = o.fs
               /\ scenario' = IF o.res = "Ok" THEN o.scenario ELSE scenario
               /\ last' = PersistCall("read_from_file", path, o.res,
                                      IF o.res = "Ok" THEN NoEvent ELSE o.error)
    /\ UNCHANGED <<current_state, cursor, erred, the_queue, the_decoder, the_persistent>>

FileNext == WriteToFile \/ ReadFromFile

SpecFile == FileInit /\ [][FileNext]_vars

(***************************************************************************)
(* The REPL's context, as commands/event_proxy/tests.rs drives it: a       *)
(* simulation over the fixtures' Append events, to which event commands    *)
(* are applied between steps and jumps.                                    *)
(***************************************************************************)
ProxyEvents == {ReplAppend(id) : id \in 0..2}

\* what the terminal answers to a prompt: YesNo::Yes, YesNo::No or an AccessTerminalError
Responses == {"Yes", "No", "Error"}

\* TestContext::new(num_events)
TestContextNew(num_events) ==
    SimulationFrom(Scenario(TestStateDefault, [i \in 1..num_events |-> ReplAppend(i - 1)]))

ProxyInit ==
    \E num_events \in 0..MaxLen :
        /\ scenario = TestContextNew(num_events).scenario
        /\ current_state = TestContextNew(num_events).current_state
        /\ cursor = TestContextNew(num_events).cursor
        /\ last = [op |-> "from", arg |-> NoArg, res |-> "Ok", from |-> 0, n |-> num_events,
                   rejected |-> NoEvent, retry |-> FALSE]
        /\ erred = FALSE
        /\ the_queue = QueueNone
        /\ the_decoder = DecoderNone
        /\ the_persistent = PersistentNone
        /\ the_files = NoFiles

\* proxy.apply(&mut looper): last.responses are the answers the terminal had in store
ProxyApply ==
    \E event \in ProxyEvents, responses \in SeqsUpTo(Responses, 2) :
        LET o == EventProxyApply(sim, event, responses)
        IN  /\ Explored(o)
            /\ scenario' = o.sim.scenario
            /\ current_state' = o.sim.current_state
            /\ cursor' = o.sim.cursor
            /\ last' = [op |-> "apply", arg |-> event, res |-> o.res, from |-> cursor,
                        n |-> Len(scenario.timeline), rejected |-> NoEvent, retry |-> FALSE,
                        responses |-> responses, prompts |-> o.prompts]
            /\ erred' = (erred \/ o.res = "Transition")
            /\ UNCHANGED <<the_queue, the_decoder, the_persistent, the_files>>

ProxyNext == ProxyApply \/ Step \/ Jump

SpecProxy == ProxyInit /\ [][ProxyNext]_vars

(***************************************************************************)
(* Helpers of the properties.                                              *)
(***************************************************************************)
\* the state after applying the first k events of timeline, in order, to initial
RECURSIVE Replay(_, _, _)
Replay(initial, timeline, k) ==
    IF k = 0 THEN initial
    ELSE apply(timeline[k], Replay(initial, timeline, k - 1), QueueNew(k, timeline)).state

\* the simulation after n calls of step(), whatever they return
RECURSIVE StepN(_, _)
StepN(s, n) == IF n = 0 THEN s ELSE StepN(step(s).sim, n - 1)

N == Len(scenario.timeline)

(***************************************************************************)
(* Properties of the Simulation.                                           *)
(***************************************************************************)

\* C1: as long as no apply has returned an error, current_state is the result
\* of applying timeline[0], ..., timeline[cursor-1] in order to scenario.initial.
StateIsReplayOfPast ==
    ~erred => current_state = Replay(scenario.initial, scenario.timeline, cursor)

StateIsReplayOfPastWitness ==
    /\ ~erred
    /\ cursor >= 2
    /\ \E i \in 1..cursor : scenario.timeline[i].kind = "UpdateQueue"
    /\ current_state # scenario.initial
    /\ N > cursor

\* C2: the cursor is always within 0..len(timeline), also after calls that
\* returned an error.
CursorInRange == 0 <= cursor /\ cursor <= N

CursorInRangeWitness ==
    /\ last.op = "truncate"
    /\ last.n > N
    /\ cursor = N
    /\ cursor > 0
    /\ erred

\* C3: a step() whose event applies successfully applies exactly that event to
\* current_state, commits the insertions the event staged and advances the
\* cursor by exactly one.
StepAppliesOneEvent ==
    [][(last'.op = "step" /\ cursor < N /\ step_apply(sim).res = "Ok")
         => /\ last'.res = "Ok"
            /\ cursor' = cursor + 1
            /\ current_state' = step_apply(sim).state
            /\ scenario'.timeline =
                   process_insertions(cursor + 1, step_apply(sim).queue.insertions,
                                      scenario.timeline)
            /\ scenario'.initial = scenario.initial]_vars

StepAppliesOneEventWitness ==
    /\ last.op = "step"
    /\ last.res = "Ok"
    /\ cursor = last.from + 1
    /\ cursor >= 2
    /\ N = last.n + 1

\* C4: step() at cursor == N returns TimelineExhausted and changes neither
\* current_state, cursor nor the timeline.
StepExhaustedNoMutation ==
    [][(last'.op = "step" /\ cursor = N)
         => /\ last'.res = "TimelineExhausted"
            /\ UNCHANGED <<scenario, current_state, cursor>>]_vars

StepExhaustedNoMutationWitness ==
    /\ last.op = "step"
    /\ last.res = "TimelineExhausted"
    /\ cursor = N
    /\ N > 0
    /\ current_state # scenario.initial

\* C5: a step() whose event fails returns the Transition error, does not
\* advance the cursor and leaves the scenario (timeline included) as it was:
\* none of the insertions the event staged is committed.
StepFailureCommitsNothing ==
    [][(last'.op = "step" /\ cursor < N /\ step_apply(sim).res = "Err")
         => /\ last'.res = "Transition"
            /\ cursor' = cursor
            /\ scenario' = scenario]_vars

StepFailureCommitsNothingWitness ==
    /\ last.op = "step"
    /\ last.res = "Transition"
    /\ cursor < N
    /\ scenario.timeline[cursor + 1].kind = "Botched"
    /\ N = last.n

\* C6: no rollback: after a failed step() current_state is the state as the
\* failing apply left it; reset() and a successful backward jump leave a state
\* that is again the replay of timeline[0..cursor].
NoRollback ==
    [][/\ (last'.op = "step" /\ last'.res = "Transition")
            => current_state' = step_apply(sim).state
       /\ (last'.op = "reset" \/ (last'.op = "jump" /\ last'.arg < cursor /\ last'.res = "Ok"))
            => current_state' = Replay(scenario'.initial, scenario'.timeline, cursor')]_vars

NoRollbackWitness ==
    /\ last.op = "step"
    /\ last.res = "Transition"
    /\ cursor >= 1
    /\ current_state # Replay(scenario.initial, scenario.timeline, cursor)

\* C7: jump(location) with location <= N leaves current_state, cursor and the
\* timeline as reset() followed by location calls of step() leaves them,
\* wherever the cursor was.
JumpIsResetThenSteps ==
    [][(last'.op = "jump" /\ last'.arg <= N)
         => sim' = StepN(reset(sim), last'.arg)]_vars

\* C8: jump(location) with location > N returns TimelineExhausted and changes
\* neither current_state, cursor nor the timeline, wherever the cursor is.
JumpBeyondEndNoMutation ==
    [][(last'.op = "jump" /\ last'.arg > N)
         => /\ last'.res = "TimelineExhausted"
            /\ UNCHANGED <<scenario, current_state, cursor>>]_vars

JumpBeyondEndNoMutationWitness ==
    /\ last.op = "jump"
    /\ last.res = "TimelineExhausted"
    /\ last.arg > N
    /\ 0 < cursor
    /\ cursor < N
    /\ current_state # scenario.initial

JumpStart(location) == IF location < cursor THEN reset(sim) ELSE sim

\* the number of steps that succeeded before one failed with a TransitionError,
\* when the replay from start towards location meets such a step
FailsAfter(start, location) ==
    {k \in 0..(location - start.cursor - 1) :
        /\ StepN(start, k).cursor = start.cursor + k
        /\ step(StepN(start, k)).res = "Transition"}

\* C10: when a step fails while jump(location) replays, jump returns that
\* error at once: the cursor is the index of the failing event, the events
\* before it have been applied and no later event is.
JumpStopsAtFirstFailure ==
    [][(last'.op = "jump" /\ last'.arg <= N)
         => LET start == JumpStart(last'.arg)
                fails == FailsAfter(start, last'.arg)
            IN  /\ \A k \in fails :
                      /\ last'.res = "Transition"
                      /\ cursor' = start.cursor + k
                      /\ sim' = step(StepN(start, k)).sim
                      /\ step_apply(sim').res = "Err"
                /\ last'.res = "Transition" => fails # {}]_vars

JumpStopsAtFirstFailureWitness ==
    /\ last.op = "jump"
    /\ last.res = "Transition"
    /\ last.from < cursor
    /\ cursor + 1 < last.arg
    /\ N >= last.arg

\* the number of steps that succeed from s before one fails with a
\* TransitionError, when stepping from s meets such a step
RunFailsAfter(s) ==
    {k \in 0..MaxLen :
        /\ StepN(s, k).cursor = s.cursor + k
        /\ step(StepN(s, k)).res = "Transition"}

\* the numbers n such that n successful steps from s reach the end of the timeline
RunCompletesAfter(s) ==
    {n \in 0..MaxLen :
        /\ StepN(s, n).cursor = s.cursor + n
        /\ StepN(s, n).cursor = Len(StepN(s, n).scenario.timeline)}

RunAbortsAtFirstFailure ==
    [][last'.op = "run"
         => /\ \A k \in RunFailsAfter(sim) :
                  /\ last'.res = "Transition"
                  /\ cursor' = cursor + k
                  /\ sim' = step(StepN(sim, k)).sim
                  /\ step_apply(sim').res = "Err"
            /\ last'.res = "Transition" => RunFailsAfter(sim) # {}]_vars

RunAbortsAtFirstFailureWitness ==
    /\ last.op = "run"
    /\ last.res = "Transition"
    /\ last.from < cursor
    /\ cursor + 1 < N
    /\ current_state # Replay(scenario.initial, scenario.timeline, cursor)

\* C14: reset() always succeeds, sets current_state to scenario.initial and
\* the cursor to 0, and leaves the scenario (initial state and whole timeline,
\* committed insertions included) untouched.
ResetRestoresInitial ==
    [][last'.op = "reset"
         => /\ last'.res = "Ok"
            /\ current_state' = scenario.initial
            /\ cursor' = 0
            /\ scenario' = scenario]_vars

ResetRestoresInitialWitness ==
    /\ last.op = "reset"
    /\ last.from >= 2
    /\ cursor = 0
    /\ scenario.initial # TestStateDefault
    /\ current_state = scenario.initial
    /\ N >= 3
    /\ \E i \in 1..N : scenario.timeline[i].kind = "UpdateQueue"

\* C15: push_event(e) at cursor == N succeeds and appends e as the last
\* element; cursor and current_state are unchanged, so e is the event the next
\* step() applies.
PushAtEndAppends ==
    [][(last'.op = "push_event" /\ cursor = N)
         => /\ last'.res = "Ok"
            /\ scenario'.timeline = Append(scenario.timeline, last'.arg)
            /\ scenario'.initial = scenario.initial
            /\ cursor' = cursor
            /\ current_state' = current_state
            /\ scenario'.timeline[cursor' + 1] = last'.arg]_vars

PushAtEndAppendsWitness ==
    /\ last.op = "push_event"
    /\ last.res = "Ok"
    /\ N = last.n + 1
    /\ cursor = last.n
    /\ cursor >= 2
    /\ scenario.timeline[cursor + 1] = last.arg

\* C16: push_event(e) at cursor < N returns TruncationRequired carrying the
\* very event e and leaves timeline, cursor and current_state as they were.
PushMidTimelineRejected ==
    [][(last'.op = "push_event" /\ cursor < N)
         => /\ last'.res = "TruncationRequired"
            /\ last'.rejected = last'.arg
            /\ UNCHANGED <<scenario, current_state, cursor>>]_vars

PushMidTimelineRejectedWitness ==
    /\ last.op = "push_event"
    /\ last.res = "TruncationRequired"
    /\ last.rejected = last.arg
    /\ cursor >= 1
    /\ cursor < N

\* C17: after push_event(e) failed with TruncationRequired(e), truncate()
\* followed by push_event(e) returns Ok and leaves the timeline
\* old timeline[0..cursor] followed by e.
TruncateThenRetry ==
    [][/\ (last'.op = "truncate" /\ last'.rejected # NoEvent)
            => /\ scenario'.timeline = SubSeq(scenario.timeline, 1, cursor)
               /\ cursor' = cursor
       /\ (last'.op = "push_event" /\ last'.retry)
            => /\ last'.res = "Ok"
               /\ scenario'.timeline = Append(scenario.timeline, last'.arg)
               /\ Len(scenario.timeline) = cursor]_vars

TruncateThenRetryWitness ==
    /\ last.op = "push_event"
    /\ last.retry
    /\ last.res = "Ok"
    /\ cursor >= 1
    /\ N = cursor + 1
    /\ scenario.timeline[N] = last.arg

\* C18: truncate() removes exactly timeline[cursor..]: the events before the
\* cursor, current_state and cursor are unchanged and the timeline is cursor
\* long; a second truncate() right after changes nothing.
TruncateDropsFuture ==
    [][last'.op = "truncate"
         => /\ scenario'.timeline = SubSeq(scenario.timeline, 1, cursor)
            /\ Len(scenario'.timeline) = cursor'
            /\ scenario'.initial = scenario.initial
            /\ current_state' = current_state
            /\ cursor' = cursor
            /\ truncate(sim') = sim'
            /\ last.op = "truncate" => UNCHANGED <<scenario, current_state, cursor>>]_vars

TruncateDropsFutureWitness ==
    /\ last.op = "truncate"
    /\ last.n >= N + 2
    /\ cursor = N
    /\ cursor >= 1
    /\ current_state # scenario.initial

\* C19: set_scenario(s) replaces the scenario wholesale and resets: the
\* timeline and initial state are those of s, current_state is s.initial and
\* the cursor is 0, whatever cursor and state were before.
SetScenarioResets ==
    [][last'.op = "set_scenario"
         => /\ scenario' = last'.arg
            /\ current_state' = last'.arg.initial
            /\ cursor' = 0]_vars

SetScenarioResetsWitness ==
    /\ last.op = "set_scenario"
    /\ last.from >= 2
    /\ last.n >= 3
    /\ scenario.initial # TestStateDefault
    /\ N = 1
    /\ cursor = 0

\* the timeline after the first k staged insertions have been spliced in, each
\* at offset + its index in the timeline as the insertions before it left it
RECURSIVE Spliced(_, _, _, _)
Spliced(offset, insertions, timeline, k) ==
    IF k = 0 THEN timeline
    ELSE LET sofar == Spliced(offset, insertions, timeline, k - 1)
             at == offset + insertions[k][1]
         IN  SubSeq(sofar, 1, at) \o <<insertions[k][2]>> \o SubSeq(sofar, at + 1, Len(sofar))

\* C20: commit splices the staged insertions one at a time, in staging order,
\* each at (cursor + 1) + its index in the timeline as it then stands; a
\* one-event timeline whose event staged insert_later(0, X) becomes <<event, X>>.
CommitSplicesInStagingOrder ==
    [][last'.op = "commit"
         => /\ the_queue.offset = cursor + 1
            /\ scenario'.timeline =
                   Spliced(cursor + 1, the_queue.insertions, scenario.timeline,
                           Len(the_queue.insertions))
            /\ \A x \in {IndexedEvent(10)} :
                   (Len(scenario.timeline) = 1 /\ the_queue.insertions = <<<<0, x>>>>)
                       => scenario'.timeline = <<scenario.timeline[1], x>>]_vars

CommitSplicesInStagingOrderWitness ==
    /\ last.op = "commit"
    /\ Len(last.arg) = 3
    /\ last.arg[1][1] > last.arg[2][1]
    /\ last.arg[2][1] < last.arg[3][1]
    /\ last.from >= 1
    /\ N = last.n + 3

StagedEvents(insertions) == [k \in 1..Len(insertions) |-> insertions[k][2]]

Reversed(s) == [i \in 1..Len(s) |-> s[Len(s) + 1 - i]]

\* C21: insertions staged at one index during one apply are committed at that
\* position in reverse staging order; with two future events, insert_later(2, A),
\* insert_later(2, B), insert_later(2, C) leave [C, B, A] after the two.
SameIndexCommitsReversed ==
    [][(/\ last'.op = "commit"
        /\ the_queue.insertions # <<>>
        /\ \A k \in 1..Len(the_queue.insertions) :
               the_queue.insertions[k][1] = the_queue.insertions[1][1])
         => LET at == cursor + 1 + the_queue.insertions[1][1]
                A == IndexedEvent(10)
                B == IndexedEvent(20)
                C == IndexedEvent(30)
            IN  /\ scenario'.timeline =
                       SubSeq(scenario.timeline, 1, at)
                           \o Reversed(StagedEvents(the_queue.insertions))
                           \o SubSeq(scenario.timeline, at + 1, N)
                /\ (/\ N - (cursor + 1) = 2
                    /\ the_queue.insertions = <<<<2, A>>, <<2, B>>, <<2, C>>>>)
                       => scenario'.timeline = scenario.timeline \o <<C, B, A>>]_vars

SameIndexCommitsReversedWitness ==
    /\ last.op = "commit"
    /\ last.n - (last.from + 1) = 2
    /\ last.arg = <<<<2, IndexedEvent(10)>>, <<2, IndexedEvent(20)>>, <<2, IndexedEvent(30)>>>>
    /\ SubSeq(scenario.timeline, N - 2, N) = <<IndexedEvent(30), IndexedEvent(20), IndexedEvent(10)>>

\* C22: push_later stages its event at the combined end, the number of future
\* events plus the number of insertions staged so far; events staged by
\* push_later calls alone are committed after the future events, in staging order.
PushLaterStagesAtCombinedEnd ==
    [][/\ last'.op = "push_later"
           => /\ last'.res = "Ok"
              /\ the_queue'.insertions =
                     Append(the_queue.insertions,
                            <<(N - (cursor + 1)) + Len(the_queue.insertions), last'.arg>>)
       /\ (/\ last'.op = "commit"
           /\ \A k \in 1..Len(the_queue.insertions) :
                  the_queue.insertions[k][1] = (N - (cursor + 1)) + (k - 1))
              => scenario'.timeline =
                     scenario.timeline \o StagedEvents(the_queue.insertions)]_vars

PushLaterStagesAtCombinedEndWitness ==
    /\ last.op = "commit"
    /\ Len(last.arg) = 3
    /\ last.n - (last.from + 1) >= 1
    /\ \A k \in 1..3 : last.arg[k][1] = (last.n - (last.from + 1)) + (k - 1)
    /\ SubSeq(scenario.timeline, N - 2, N) = <<IndexedEvent(10), IndexedEvent(20), IndexedEvent(30)>>

\* C23: through a queue built at offset, past() is timeline[0..offset-1] and
\* future() is timeline[offset..], the current event is in neither, and no
\* insert_later or push_later call changes either view.
ViewsExcludeStaged ==
    (the_queue # QueueNone)
        => /\ past(the_queue) = [i \in 1..cursor |-> IndexedEvent(i - 1)]
           /\ future(the_queue) = [i \in 1..(last.n - cursor - 1) |-> IndexedEvent(cursor + i)]
           /\ Len(past(the_queue)) + 1 + Len(future(the_queue)) = N

ViewsExcludeStagedWitness ==
    /\ the_queue # QueueNone
    /\ last.op \in {"insert_later", "push_later"}
    /\ last.res = "Ok"
    /\ Len(the_queue.insertions) = 3
    /\ past(the_queue) = <<IndexedEvent(0)>>
    /\ future(the_queue) = <<IndexedEvent(2)>>

\* C24: insert_later(index, e) is accepted exactly when index is at most the
\* number of future events plus the number of insertions already staged; a
\* larger index panics and stages nothing.
InsertLaterBound ==
    [][last'.op = "insert_later"
         => LET lim == (N - (cursor + 1)) + Len(the_queue.insertions)
            IN  /\ last'.res = "Ok" <=> last'.arg[1] <= lim
                /\ last'.res = "Ok"
                       => the_queue'.insertions = Append(the_queue.insertions, last'.arg)
                /\ last'.res # "Ok"
                       => last'.res = "Panic" /\ the_queue' = the_queue]_vars

\* the index one past the combined end is rejected, one that is in range only
\* thanks to the staged insertions was accepted before
InsertLaterBoundWitness ==
    /\ last.op = "insert_later"
    /\ last.res = "Panic"
    /\ Len(the_queue.insertions) = 2
    /\ the_queue.insertions[2][1] = (N - (cursor + 1)) + 1
    /\ last.arg[1] = (N - (cursor + 1)) + 3

\* C25 as stated: after a step() that failed with TimelineExhausted, reset(),
\* jump(location) for every location <= N and push_event(e) each succeed, and
\* the step() after a successful push_event(e) applies e.
ExhaustedIsRecoverable ==
    [][/\ (last.op = "step" /\ last.res = "TimelineExhausted")
            => /\ last'.op = "reset" => last'.res = "Ok"
               /\ (last'.op = "jump" /\ last'.arg <= N) => last'.res = "Ok"
               /\ last'.op = "push_event" => last'.res = "Ok"
       /\ (last.op = "push_event" /\ last.res = "Ok" /\ last'.op = "step")
            => /\ last'.res # "TimelineExhausted"
               /\ scenario.timeline[cursor + 1] = last.arg]_vars

JumpToStartIsReset ==
    [][(last'.op = "jump" /\ last'.arg = 0)
         => /\ last'.res = "Ok"
            /\ current_state' = scenario.initial
            /\ cursor' = 0
            /\ sim' = reset(sim)]_vars

\* every event of the scenario is decoded back from its name and its
\* to_string: its name is registered and the parser under it returns the event
RoundTrips(scn, dec) ==
    \A i \in 1..Len(scn.timeline) :
        decode(dec, name(scn.timeline[i]), to_string(scn.timeline[i]))
            = ParseOk(scn.timeline[i])

\* C28: for a scenario whose events round-trip through the decoder,
\* PersistentScenario::from(&scenario), then decode, then
\* PersistentScenario::from(&result) gives the first PersistentScenario again.
PersistenceRoundTrip ==
    [][(/\ last.op = "from_scenario"
        /\ last'.op = "decode"
        /\ RoundTrips(scenario, the_decoder))
         => /\ the_persistent = PersistentScenarioFrom(scenario)
            /\ last'.res = "Ok"
            /\ PersistentScenarioFrom(scenario') = the_persistent]_vars

PersistenceRoundTripWitness ==
    /\ last.op = "decode"
    /\ last.res = "Ok"
    /\ RoundTrips(scenario, the_decoder)
    /\ last.arg = PersistentScenarioFrom(scenario)
    /\ Len(scenario.timeline) = 2
    /\ scenario.timeline[1].kind = "TestEvent"
    /\ scenario.timeline[2].kind = "Append"

\* what the decoder makes of each pair of a PersistentScenario
Decoded(persistent, dec) ==
    [i \in 1..Len(persistent.timeline) |->
        decode(dec, persistent.timeline[i].name, persistent.timeline[i].encoded)]

\* C29: decode takes the pairs in order and stops at the first that fails: if
\* none fails it returns the decoded events in the order of the pairs, with the
\* initial state unchanged; otherwise it returns the error of the first failing
\* pair and no scenario.
DecodeAbortsAtFirstFailure ==
    [][last'.op = "decode"
         => LET results == Decoded(the_persistent, the_decoder)
                fails == {i \in 1..Len(results) : results[i].res # "Ok"}
            IN  /\ fails = {}
                     => /\ last'.res = "Ok"
                        /\ scenario'.initial = the_persistent.initial
                        /\ Len(scenario'.timeline) = Len(the_persistent.timeline)
                        /\ \A i \in 1..Len(results) : scenario'.timeline[i] = results[i].event
                /\ fails # {}
                     => /\ last'.res = "ParseEvent"
                        /\ \A i \in fails :
                               (\A j \in fails : i <= j) => last'.rejected = results[i]
                        /\ scenario' = scenario]_vars

DecodeAbortsAtFirstFailureWitness ==
    /\ last.op = "decode"
    /\ last.res = "ParseEvent"
    /\ Len(last.arg.timeline) = 2
    /\ Decoded(last.arg, the_decoder)[1].res = "Ok"
    /\ Decoded(last.arg, the_decoder)[2].res = "Err"
    /\ last.rejected = Decoded(last.arg, the_decoder)[2]
    /\ scenario.timeline # <<>>

\* C30: building a decoder fails with the duplicate-name error exactly when
\* two of the parsers share a name, and the error names a shared name; a
\* decoder that is built holds each of the parsers under its name, one per name.
DuplicateParserRejected ==
    [][last'.op = "try_from"
         => LET parsers == last'.arg
                shared == {parsers[i].name : i \in {i \in 1..Len(parsers) :
                              \E j \in 1..Len(parsers) : i # j /\ parsers[i].name = parsers[j].name}}
            IN  /\ last'.res = "InvalidEventParserSpec" <=> shared # {}
                /\ shared # {}
                     => /\ ~IsDecoder(the_decoder')
                        /\ \E nm \in shared : last'.rejected = InvalidEventParserSpec(nm)
                /\ shared = {}
                     => /\ last'.res = "Ok"
                        /\ IsDecoder(the_decoder')
                        /\ Cardinality(DOMAIN the_decoder'.by_name) = Len(parsers)
                        /\ \A i \in 1..Len(parsers) :
                               the_decoder'.by_name[parsers[i].name] = parsers[i]]_vars

DuplicateParserRejectedWitness ==
    /\ last.op = "try_from"
    /\ last.res = "InvalidEventParserSpec"
    /\ Len(last.arg) = 2
    /\ last.arg[1] # last.arg[2]
    /\ last.rejected = InvalidEventParserSpec("test")
    /\ ~IsDecoder(the_decoder)

\* C31: Decoder::decode(name, encoded) fails with the "no event parser" error
\* for name when no parser is registered under name; otherwise it returns what
\* the parser registered under name returns for encoded: its event, or its own
\* error unchanged.
DecodeDelegatesToParser ==
    [][last'.op = "decode_event"
         => LET nm == last'.arg[1]
                encoded == last'.arg[2]
                registered == {p \in Parsers : /\ p.name \in DOMAIN the_decoder.by_name
                                               /\ the_decoder.by_name[p.name] = p}
            IN  /\ (\A p \in registered : p.name # nm)
                     => /\ last'.res = "Err"
                        /\ last'.rejected = ParseErr("no event parser", nm)
                /\ \A p \in registered :
                       p.name = nm => /\ last'.rejected = from_str(p.kind, encoded)
                                      /\ last'.res = from_str(p.kind, encoded).res]_vars

\* decode("append", "bad") on a decoder that knows "append": the error is the parser's
DecodeDelegatesToParserWitness ==
    /\ last.op = "decode_event"
    /\ last.arg = <<"append", <<"b", "a", "d">>>>
    /\ "append" \in DOMAIN the_decoder.by_name
    /\ last.res = "Err"
    /\ last.rejected = ParseErr("invalid digit", <<"b", "a", "d">>)

\* C32: write_to_file and read_from_file on a path whose extension is not
\* "yaml" return UnsupportedFileFormat without any call on the file system:
\* no file is created, truncated, opened or read.  The I/O, deserializer and
\* parse-event errors are other errors and arise only on a path whose
\* extension is "yaml", after a call on the file system.
ExtensionCheckedFirst ==
    [][last'.op \in {"write_to_file", "read_from_file"}
         => /\ Extension(last'.arg) # <<"y", "a", "m", "l">>
                 => /\ last'.res = "UnsupportedFileFormat"
                    /\ the_files'.accessed = <<>>
                    /\ the_files'.files = the_files.files
                    /\ scenario' = scenario
            /\ last'.res \in {"Io", "Deserializer", "ParseEvent"}
                 => /\ Extension(last'.arg) = <<"y", "a", "m", "l">>
                    /\ the_files'.accessed # <<>>
                    /\ the_files'.accessed[1][1] \in {"create", "open"}
            /\ last'.res = "UnsupportedFileFormat"
                 => Extension(last'.arg) # <<"y", "a", "m", "l">>]_vars

\* data.json exists and holds a scenario, and reading it is refused unread
ExtensionCheckedFirstWitness ==
    /\ last.op = "read_from_file"
    /\ last.arg = <<"d", ".", "j", "s", "o", "n">>
    /\ last.res = "UnsupportedFileFormat"
    /\ last.rejected.got = <<"j", "s", "o", "n">>
    /\ last.arg \in DOMAIN the_files.files
    /\ IsYaml(the_files.files[last.arg])
    /\ the_files.accessed = <<>>

\* C33: in every reachable state, a step() that builds a queue (one that does
\* not return TimelineExhausted) builds it at an offset cursor + 1 with
\* 1 <= offset <= len(timeline): neither assertion of Queue::new fires.
StepBuildsValidQueue ==
    step(sim).res # "TimelineExhausted"
        => /\ 1 <= cursor + 1
           /\ cursor + 1 <= N
           /\ QueueNew(cursor + 1, scenario.timeline) # QueuePanic
           /\ QueueNew(cursor + 1, scenario.timeline).offset = cursor + 1

\* a step has just built its queue at the largest offset, the length of a
\* timeline that insertions had grown
StepBuildsValidQueueWitness ==
    /\ last.op = "step"
    /\ last.res = "Ok"
    /\ last.from + 1 = last.n
    /\ last.from >= 2
    /\ \E i \in 1..last.from : scenario.timeline[i].kind = "UpdateQueue"
    /\ cursor = N

\* C34: at commit, the k-th staged insertion is spliced in at a position that
\* is at most the length the timeline has at that moment, for every sequence
\* of insert_later and push_later calls that were accepted during the apply;
\* the commit does not panic and the timeline grows by exactly the number of
\* staged insertions.
CommitStaysInBounds ==
    [][last'.op = "commit"
         => /\ \A k \in 1..Len(the_queue.insertions) :
                   the_queue.offset + the_queue.insertions[k][1] <= N + (k - 1)
            /\ last'.res = "Ok"
            /\ Len(scenario'.timeline) = N + Len(the_queue.insertions)]_vars

\* the third insertion went in at the very end of what the first two had grown
CommitStaysInBoundsWitness ==
    /\ last.op = "commit"
    /\ last.res = "Ok"
    /\ Len(last.arg) = 3
    /\ last.arg[1][1] = 0
    /\ last.arg[3][1] = (last.n - (last.from + 1)) + 2
    /\ N = last.n + 3
    /\ scenario.timeline[N] = IndexedEvent(30)

\* the events of a are in b, in the order they have in a
RECURSIVE IsSubsequence(_, _)
IsSubsequence(a, b) ==
    IF a = <<>> THEN TRUE
    ELSE IF b = <<>> THEN FALSE
    ELSE IF Head(a) = Head(b) THEN IsSubsequence(Tail(a), Tail(b))
    ELSE IsSubsequence(a, Tail(b))

\* C35: a successful step() leaves timeline[0..=old cursor] as it was and
\* inserts only at positions >= the new cursor, the events that were in the
\* future keeping their relative order; step, jump, run, reset and push_event
\* never remove or reorder events of the timeline.
HistoryNeverRewritten ==
    [][/\ (last'.op = "step" /\ last'.res = "Ok")
            => /\ cursor' = cursor + 1
               /\ SubSeq(scenario'.timeline, 1, cursor + 1)
                      = SubSeq(scenario.timeline, 1, cursor + 1)
               /\ IsSubsequence(SubSeq(scenario.timeline, cursor + 2, N),
                                SubSeq(scenario'.timeline, cursor' + 1, Len(scenario'.timeline)))
       /\ last'.op \in {"step", "jump", "run", "reset", "push_event"}
            => /\ IsSubsequence(scenario.timeline, scenario'.timeline)
               /\ Len(scenario'.timeline) >= N]_vars

\* the step of an UpdateQueue put its event between two events of the future
HistoryNeverRewrittenWitness ==
    /\ last.op = "step"
    /\ last.res = "Ok"
    /\ cursor >= 1
    /\ N = last.n + 1
    /\ N >= cursor + 3
    /\ scenario.timeline[cursor] = UpdateQueue(1, 1)
    /\ scenario.timeline[cursor + 2] = AppendEv(1)
    /\ scenario.timeline[cursor + 1] # AppendEv(1)
    /\ scenario.timeline[cursor + 3] # AppendEv(1)

NavigationIsRepeatable ==
    (~erred /\ last.res # "Panic")
        => \A back \in 0..cursor :
               LET there == IF back = 0 THEN Outcome(reset(sim), "Ok") ELSE jump(sim, back)
                   again == jump(there.sim, cursor)
               IN  (there.res = "Ok" /\ again.res = "Ok")
                       => /\ again.sim.cursor = cursor
                          /\ again.sim.current_state = current_state

\* the terminal's first answer is this one
FirstAnswer(call, answer) == call.responses # <<>> /\ call.responses[1] = answer

PushEventFailsOnlyWithTruncation ==
    /\ \A event \in ProxyEvents :
           /\ push_event(sim, event).res \in {"Ok", "TruncationRequired"}
           /\ push_event(sim, event).res = "TruncationRequired"
                  => push_event(sim, event).rejected = event
    /\ last.op = "apply" => last.res # "Unreachable"

\* the push_event of a command has just failed, and the command went on to prompt
PushEventFailsOnlyWithTruncationWitness ==
    /\ last.op = "apply"
    /\ last.prompts = 1
    /\ last.res = "AccessTerminal"
    /\ 0 < cursor
    /\ cursor < N
    /\ \A event \in ProxyEvents : push_event(sim, event).res = "TruncationRequired"

\* C40: when EventProxy.apply has pushed its event and the event's apply
\* fails, the command returns the TransitionError and undoes nothing: the
\* event stays in the timeline as its last element, at index cursor, the
\* cursor has not advanced, and a following push_event requires truncation.
ProxyKeepsRejectedEvent ==
    [][last'.op = "apply"
         => LET pushes == cursor = N \/ FirstAnswer(last', "Yes")
                fails == apply(last'.arg, current_state, QueueNone).res = "Err"
            IN  /\ (pushes /\ fails)
                     => /\ last'.res = "Transition"
                        /\ cursor' = cursor
                        /\ current_state' = current_state
                        /\ Len(scenario'.timeline) = cursor' + 1
                        /\ scenario'.timeline[cursor' + 1] = last'.arg
                        /\ SubSeq(scenario'.timeline, 1, cursor) = SubSeq(scenario.timeline, 1, cursor)
                        /\ \A event \in ProxyEvents :
                               push_event(sim', event).res = "TruncationRequired"
                /\ last'.res = "Transition" => pushes /\ fails]_vars

\* TestContext::new(1), a step, and the command of Append 0: a duplicate
ProxyKeepsRejectedEventWitness ==
    /\ last.op = "apply"
    /\ last.res = "Transition"
    /\ last.prompts = 0
    /\ last.arg = ReplAppend(0)
    /\ current_state = TestState(<<0>>)
    /\ cursor = 1
    /\ scenario.timeline = <<ReplAppend(0), ReplAppend(0)>>

====
